---- MODULE Spec2Model ----
(***************************************************************************)
(* Model of scripts/build.py: one run is main() = connect_db, then         *)
(* import_sendai_events (download_csv, DELETE, INSERT per titled row,      *)
(* commit), then build_site, then close.  The database file (table events  *)
(* and its AUTOINCREMENT counter) and site/index.html persist across runs. *)
(*                                                                         *)
(* A Python str is a sequence of characters; a character is a TLA+ string. *)
(* ASCII characters stand for themselves.  Non-ASCII characters are named  *)
(* by a romanised token, one token per character:                          *)
(*   mu ryou = U+7121 U+6599 (free of charge)   shou gaku sei = U+5C0F     *)
(*   U+5B66 U+751F   oya ko = U+89AA U+5B50   ko do mo = U+5B50 U+3069     *)
(*   U+3082   tai ken = U+4F53 U+9A13   kou saku = U+5DE5 U+4F5C           *)
(*   sen dai shi = U+4ED9 U+53F0 U+5E02   ellipsis = U+2026                *)
(***************************************************************************)
EXTENDS Integers, Sequences, FiniteSets, TLC

VARIABLES
  events,    \* table events of data.db, in rowid order
  seq,       \* sqlite_sequence of events: the largest id ever handed out
  pc,        \* where main() is, or the exception that ended it
  rows,      \* this run's fetched text as csv.DictReader splits it
  today,     \* build_site's today
  show,      \* build_site's show
  site,      \* site/index.html
  loaded,    \* history: the rows the table was last loaded from
  reimport   \* history: this run imported the rows the table already held

vars == <<events, seq, pc, rows, loaded, reimport, today, show, site>>

(* ---------------- bounds of the model ---------------- *)
MaxRows == 2
MaxSeq == 2

(* ---------------- program constants ---------------- *)
PastLimit == 20
DescLimit == 140
DayLen == 10
BaseScore == 60
ElemScore == 80

(* ---------------- str primitives ---------------- *)

\* characters in code point order (str comparison is by code point)
Alphabet ==
  << "\t", "\n", "\r", " ", "\"", "#", "&", "'", "-", "/",
     "0", "1", "2", "3", "5", "6", "7", "9", ":", ";", "<", ">",
     "H", "L", "M", "T",
     "a", "b", "c", "g", "h", "i", "l", "m", "o", "p", "q", "r", "s", "t",
     "u", "x",
     "ellipsis", "do", "mo", "sen", "tai", "saku", "dai", "ko", "gaku",
     "shou", "shi", "kou", "ryou", "mu", "sei", "oya", "ken" >>

Ord(c) == CHOOSE i \in 1..Len(Alphabet) : Alphabet[i] = c

\* str.isspace() characters that str.strip() removes
Whitespace == {" ", "\t", "\n", "\r"}

\* s[:n]
Prefix(s, n) == SubSeq(s, 1, IF Len(s) < n THEN Len(s) ELSE n)

\* s[-n:] for a list
LastN(s, n) == IF Len(s) <= n THEN s ELSE SubSeq(s, Len(s) - n + 1, Len(s))

\* kw in text
Contains(text, kw) ==
  \E i \in 0..(Len(text) - Len(kw)) :
     \A j \in 1..Len(kw) : text[i + j] = kw[j]

\* s.count(c) for a one-character c
Count(s, c) == Cardinality({i \in 1..Len(s) : s[i] = c})

\* a strip() that was left out
StripNothing(s) == s

\* s.strip(): drop the leading and the trailing whitespace
Strip(s) ==
  IF \A i \in 1..Len(s) : s[i] \in Whitespace THEN <<>>
  ELSE SubSeq(s,
         CHOOSE i \in 1..Len(s) :
           s[i] \notin Whitespace /\ \A j \in 1..(i - 1) : s[j] \in Whitespace,
         CHOOSE i \in 1..Len(s) :
           s[i] \notin Whitespace /\ \A j \in (i + 1)..Len(s) : s[j] \in Whitespace)

\* a >= b on str: lexicographic by code point, a proper prefix is smaller
RECURSIVE StrGE(_, _)
StrGE(a, b) ==
  IF b = <<>> THEN TRUE
  ELSE IF a = <<>> THEN FALSE
  ELSE IF Head(a) = Head(b) THEN StrGE(Tail(a), Tail(b))
  ELSE Ord(Head(a)) > Ord(Head(b))

LowerChar(c) ==
  CASE c = "H" -> "h" [] c = "L" -> "l" [] c = "M" -> "m" [] c = "T" -> "t"
    [] OTHER -> c

\* text.lower()
Lower(s) == [i \in 1..Len(s) |-> LowerChar(s[i])]

\* s.replace(a, b) for one-character a
Replace(s, a, b) == [i \in 1..Len(s) |-> IF s[i] = a THEN b ELSE s[i]]

EscapeChar(c) ==
  CASE c = "&" -> <<"&", "a", "m", "p", ";">>
    [] c = "<" -> <<"&", "l", "t", ";">>
    [] c = ">" -> <<"&", "g", "t", ";">>
    [] c = "\"" -> <<"&", "q", "u", "o", "t", ";">>
    [] c = "'" -> <<"&", "#", "x", "2", "7", ";">>
    [] OTHER -> <<c>>

\* html.escape(s) with quote=True: every character replaced in place
RECURSIVE escape(_)
escape(s) ==
  IF s = <<>> THEN <<>>
  ELSE IF Len(s) = 1 THEN EscapeChar(s[1])
  ELSE escape(SubSeq(s, 1, Len(s) \div 2))
       \o escape(SubSeq(s, Len(s) \div 2 + 1, Len(s)))

\* "".join(ss)
RECURSIVE Concat(_)
Concat(ss) ==
  IF ss = <<>> THEN <<>>
  ELSE IF Len(ss) = 1 THEN ss[1]
  ELSE Concat(SubSeq(ss, 1, Len(ss) \div 2))
       \o Concat(SubSeq(ss, Len(ss) \div 2 + 1, Len(ss)))

(* ---------------- inputs: the fetched CSV ---------------- *)

D2099Jan == <<"2", "0", "9", "9", "-", "0", "1", "-", "0", "1">>
D2099Feb == <<"2", "0", "9", "9", "-", "0", "2", "-", "0", "1">>
D2020Jan == <<"2", "0", "2", "0", "-", "0", "1", "-", "0", "5">>
D2020Mar == <<"2", "0", "2", "0", "-", "0", "3", "-", "0", "1">>

ScriptTag == <<"<", "s", "c", "r", "i", "p", "t", ">">>

\* A CSV row as csv.DictReader yields it: column name -> str; a column that
\* the row lacks (None in Python) is absent from the domain.
RowFree ==
  [name |-> <<"a">>, summary |-> <<"mu", "ryou">>, startDate |-> D2099Jan,
   locationName |-> <<"p">>, detailedUrl |-> <<>>, _id |-> <<"1">>]
RowKid ==
  [name |-> <<" ">> \o ScriptTag \o <<"tai", "ken", " ">>,
   summary |-> <<"\"", "'", "&">>,
   startDate |-> D2099Feb \o <<"T", "1", "0", ":", "0", "0">>,
   locationName |-> <<"<", "b", ">">>,
   detailedUrl |-> <<"h", ":", "/", "/", "a", "\"", ">", "&">>,
   entity_id |-> <<"x", "7">>, _id |-> <<"2">>]
RowSpanFree ==
  [name |-> ScriptTag \o <<"mu">>, summary |-> <<"ryou">>,
   startDate |-> D2020Jan, locationName |-> <<>>, detailedUrl |-> <<>>]
RowSpanKid ==
  [name |-> <<"oya">>, summary |-> <<"ko">>, startDate |-> D2020Mar,
   locationName |-> <<"p">>, detailedUrl |-> <<>>]
RowBlank ==
  [name |-> <<" ", "\t">>, summary |-> <<"mu", "ryou", "kou", "saku">>,
   startDate |-> D2099Jan, locationName |-> <<"p">>, detailedUrl |-> <<>>,
   _id |-> <<"6">>]
RowSlash ==
  [name |-> <<"c">>, summary |-> <<>>,
   startDate |-> <<"2", "0", "9", "9", "/", "0", "1", "/", "0", "1">>,
   locationName |-> <<"p">>, detailedUrl |-> <<>>, _id |-> <<"9">>]
RowPool ==
  {RowFree, RowKid, RowSpanFree, RowSpanKid, RowBlank, RowSlash}

\* a row whose date has two hyphens and is not zero-padded
RowLoose ==
  [name |-> <<"q">> \o ScriptTag, summary |-> <<"\n", "g", "\r", "g", " ">>,
   startDate |-> <<"2", "0", "9", "9", "-", "1", "-", "5">>,
   locationName |-> <<"p">>, detailedUrl |-> <<>>]

\* a row of a file whose header has no name column
RowNoName ==
  [summary |-> <<"ko", "do", "mo">>, startDate |-> D2099Feb, _id |-> <<"7">>]
\* a row that quotes markup in upper case
RowHtml ==
  [name |-> <<"x">>, summary |-> <<"<", "H", "T", "M", "L", ">">>,
   startDate |-> D2099Jan, locationName |-> <<>>, detailedUrl |-> <<>>]
\* an error page: its first line is taken for the header, the others for rows
HtmlPage ==
  << ("<!doctype html>" :> <<"<", "h", "t", "m", "l", " ", "l", "a", "n", "g", ">">>),
     ("<!doctype html>" :> <<"<", "/", "h", "t", "m", "l", ">">>) >>

\* a row whose summary is longer than a card shows
RowLong ==
  [name |-> <<"l">>,
   summary |-> <<" ", "\n">>
               \o [i \in 1..DescLimit |-> IF i = 3 THEN "\r" ELSE "<"]
               \o <<"g", " ">>,
   startDate |-> D2099Jan, locationName |-> <<>>, detailedUrl |-> <<>>]

\* more past rows than the fallback listing shows: the newest one first
LongBody == <<RowSpanKid>> \o [i \in 1..PastLimit |-> RowSpanFree]

Bodies ==
  UNION {[1..n -> RowPool] : n \in 0..MaxRows}
  \cup {LongBody, <<RowLong>>, <<RowLoose>>, <<RowKid, RowLoose>>,
        <<RowNoName>>, <<RowNoName, RowNoName>>,
        HtmlPage, <<RowFree, RowHtml>>}

Todays == {<<"2", "0", "2", "6", "-", "1", "1", "-", "0", "3">>}

(* ---------------- download_csv ---------------- *)

HtmlMarker == <<"<", "h", "t", "m", "l">>

\* "<html" in text.lower(): the marker holds no separator or quote, so it is
\* in the text exactly when it is in one of its cells
HtmlShaped(body) ==
  \E i \in 1..Len(body) : \E k \in DOMAIN body[i] :
     Contains(Lower(body[i][k]), HtmlMarker)

\* download_csv without its content-shape guard
DownloadCsvUnchecked(body) == [raised |-> FALSE, rows |-> body]

DownloadCsv(body) ==
  IF HtmlShaped(body)
  THEN [raised |-> TRUE, rows |-> <<>>]
  ELSE [raised |-> FALSE, rows |-> body]

(* ---------------- import_sendai_events ---------------- *)

\* r.get(k) or ""
GetOr(r, k) == IF k \in DOMAIN r THEN r[k] ELSE <<>>

ElemKeywords ==
  { <<"shou", "gaku", "sei">>, <<"oya", "ko">>, <<"ko", "do", "mo">>,
    <<"tai", "ken">>, <<"kou", "saku">> }
FreeKeyword == <<"mu", "ryou">>

Title(r) == Strip(GetOr(r, "name"))

HasElem(text) == \E kw \in ElemKeywords : Contains(text, kw)
HasFree(text) == Contains(text, FreeKeyword)

\* tags dict as its keys in insertion order (every value is True)
Tags(text) ==
  (IF HasElem(text) THEN <<"elem">> ELSE <<>>)
  \o (IF HasFree(text) THEN <<"free">> ELSE <<>>)

\* json.dumps(tags, ensure_ascii=False)
RECURSIVE JsonItems(_)
JsonItems(keys) ==
  IF keys = <<>> THEN <<>>
  ELSE <<"\"", Head(keys), "\"", ":", " ", "true">>
       \o (IF Tail(keys) = <<>> THEN <<>> ELSE <<",", " ">>)
       \o JsonItems(Tail(keys))
JsonDumps(keys) == <<"{">> \o JsonItems(keys) \o <<"}">>

SourceId(r) ==
  IF GetOr(r, "entity_id") # <<>> THEN GetOr(r, "entity_id")
  ELSE IF GetOr(r, "_id") # <<>> THEN GetOr(r, "_id")
  ELSE Title(r) \o GetOr(r, "startDate")

\* the tuple bound to the INSERT, with the AUTOINCREMENT id it receives
MakeRecord(r, id) ==
  LET text == Title(r) \o GetOr(r, "summary")
      tags == Tags(text)
  IN
  [id |-> id,
   source |-> <<"sendai_csv">>,
   source_id |-> SourceId(r),
   title |-> Title(r),
   summary |-> GetOr(r, "summary"),
   url |-> GetOr(r, "detailedUrl"),
   start_at |-> GetOr(r, "startDate"),
   area |-> <<"sen", "dai", "shi">>,
   venue_name |-> GetOr(r, "locationName"),
   price_band |-> IF \E i \in 1..Len(tags) : tags[i] = "free"
                  THEN "free" ELSE "unknown",
   tags_json |-> JsonDumps(tags),
   kid_score |-> IF HasElem(text) THEN ElemScore ELSE BaseScore]

\* the for loop: rows without a title are skipped, the others inserted in order
RECURSIVE InsertRows(_, _, _)
InsertRows(tbl, rws, last) ==
  IF rws = <<>> THEN tbl
  ELSE IF Title(Head(rws)) = <<>> THEN InsertRows(tbl, Tail(rws), last)
  ELSE InsertRows(Append(tbl, MakeRecord(Head(rws), last + 1)),
                  Tail(rws), last + 1)

\* an import that merges into the table
DeleteNothing(tbl) == tbl

\* DELETE FROM events
DeleteFromEvents(tbl) == <<>>

Init ==
  /\ events = <<>>
  /\ seq = 0
  /\ pc = "idle"
  /\ rows = <<>>
  /\ loaded = <<>>
  /\ reimport = FALSE
  /\ today = <<>>
  /\ show = <<>>
  /\ site = <<>>

\* main(): connect_db(); the table and its sequence are created if absent
ConnectDb ==
  /\ pc = "idle"
  /\ seq < MaxSeq
  /\ pc' = "connected"
  /\ UNCHANGED <<events, seq, rows, loaded, reimport, today, show, site>>

ImportSendaiEvents ==
  /\ pc = "connected"
  /\ \E body \in Bodies :
       LET d == DownloadCsv(body) IN
       /\ rows' = body
       /\ IF d.raised
          THEN /\ pc' = "RuntimeError"
               /\ UNCHANGED <<events, seq, loaded, reimport>>
          ELSE IF d.rows = <<>>
          THEN /\ pc' = "IndexError"
               /\ UNCHANGED <<events, seq, loaded, reimport>>
          ELSE /\ events' = InsertRows(DeleteFromEvents(events), d.rows, seq)
               /\ seq' = IF events' = <<>> THEN seq
                         ELSE events'[Len(events')].id
               /\ loaded' = d.rows
               /\ reimport' = (loaded # <<>> /\ d.rows = loaded)
               /\ pc' = "imported"
  /\ UNCHANGED <<today, show, site>>

(* ---------------- build_site ---------------- *)

\* Literal pieces of the f-string templates are single elements that are not
\* characters of the data alphabet; everything interpolated is characters.
PageTitle == <<"miya", "gi", "no", "ko", "do", "mo", "I", "BE", "N", "TO">>

html(title, body) ==
  <<"<!doctype html><html lang=ja><head>...<title>">>
  \o escape(title)
  \o <<"</title><link rel=stylesheet href=style.css?v=", "%Y%m%d%H%M",
       "></head><body><header>...</header><div class=container>">>
  \o body
  \o <<"</div><footer>...</footer></body></html>">>

\* the tuple (t, s, start_day, venue, url) built at line 252
Item(e) ==
  [t |-> e.title, s |-> e.summary, start_day |-> Prefix(e.start_at, DayLen),
   venue |-> e.venue_name, url |-> e.url]

\* a partition loop without the malformed-date check
DayOkAny(start_day) == TRUE

\* start_day.count("-") != 2 -> continue
DayOk(start_day) == Count(start_day, "-") = 2

Items(tbl) ==
  SelectSeq([i \in 1..Len(tbl) |-> Item(tbl[i])], LAMBDA it : DayOk(it.start_day))

Future(tbl, day) == SelectSeq(Items(tbl), LAMBDA it : StrGE(it.start_day, day))
Past(tbl, day) == SelectSeq(Items(tbl), LAMBDA it : ~StrGE(it.start_day, day))

\* show = future if future else past[-20:]
Show(tbl, day) ==
  IF Future(tbl, day) # <<>> THEN Future(tbl, day)
  ELSE LastN(Past(tbl, day), PastLimit)

Desc(s) ==
  LET d == Strip(Replace(Replace(s, "\n", " "), "\r", " ")) IN
  IF Len(d) > DescLimit THEN Prefix(d, DescLimit) \o <<"ellipsis">> ELSE d

\* a link that interpolates the title as it is
TitleHtmlRaw(it) ==
  IF it.url # <<>>
  THEN <<"<a href=">> \o escape(it.url)
       \o <<" target=_blank rel=noopener noreferrer>">> \o it.t \o <<"</a>">>
  ELSE escape(it.t)

TitleHtml(it) ==
  IF it.url # <<>>
  THEN <<"<a href=">> \o escape(it.url)
       \o <<" target=_blank rel=noopener noreferrer>">> \o escape(it.t)
       \o <<"</a>">>
  ELSE escape(it.t)

Card(it) ==
  <<"<div class=card>", "<h3>">> \o TitleHtml(it)
  \o <<"</h3><div class=meta>">> \o escape(it.start_day) \o <<" / ">>
  \o escape(it.venue)
  \o <<"</div><div>">> \o escape(Desc(it.s)) \o <<"</div></div>">>

Body(shown, anyFuture, day) ==
  <<"<p class=meta>">> \o day \o <<" %H:%M", "</p>">>
  \o <<IF anyFuture THEN "<h2>future</h2>" ELSE "<h2>past</h2>">>
  \o Concat([i \in 1..Len(shown) |-> Card(shown[i])])

BuildSite ==
  /\ pc = "imported"
  /\ \E day \in Todays :
       /\ today' = day
       /\ show' = Show(events, day)
       /\ site' = html(PageTitle, Body(show', Future(events, day) # <<>>, day))
  /\ pc' = "built"
  /\ UNCHANGED <<events, seq, rows, loaded, reimport>>

\* con.close() and the process ends
Close ==
  /\ pc = "built"
  /\ pc' = "idle"
  /\ rows' = <<>>
  /\ today' = <<>>
  /\ show' = <<>>
  /\ reimport' = FALSE
  /\ UNCHANGED <<events, seq, loaded, site>>

\* an uncaught exception ends the process and its locals; nothing was written
Abort ==
  /\ pc \in {"RuntimeError", "IndexError"}
  /\ pc' = "idle"
  /\ rows' = <<>>
  /\ UNCHANGED <<events, seq, loaded, reimport, today, show, site>>

Next == ConnectDb \/ ImportSendaiEvents \/ BuildSite \/ Close \/ Abort

Spec == Init /\ [][Next]_vars

(* ---------------- notions the properties are stated in ---------------- *)

\* the row has a name that is not empty after trimming
Titled(r) == "name" \in DOMAIN r /\ \E i \in 1..Len(r["name"]) : r["name"][i] \notin Whitespace

TitledAt(rws) == {k \in 1..Len(rws) : Titled(rws[k])}

\* the index of the i-th titled row
KthTitled(rws, i) ==
  CHOOSE k \in TitledAt(rws) : Cardinality({j \in TitledAt(rws) : j <= k}) = i

\* t is s without the whitespace around it
Trimmed(t, s) ==
  /\ t # <<>>
  /\ t[1] \notin Whitespace
  /\ t[Len(t)] \notin Whitespace
  /\ \E a \in 0..(Len(s) - Len(t)) :
       /\ SubSeq(s, a + 1, a + Len(t)) = t
       /\ \A j \in 1..Len(s) : (j <= a \/ j > a + Len(t)) => s[j] \in Whitespace

\* the stored record e holds the fields of the CSV row r
FromRow(e, r) ==
  /\ Titled(r)
  /\ Trimmed(e.title, r["name"])
  /\ e.summary = GetOr(r, "summary")
  /\ e.start_at = GetOr(r, "startDate")
  /\ e.venue_name = GetOr(r, "locationName")
  /\ e.url = GetOr(r, "detailedUrl")

Ids(tbl) == {tbl[i].id : i \in 1..Len(tbl)}

\* a record without its surrogate key
Columns(e) == [e EXCEPT !.id = 0]

IsDigit(c) == c \in {"0", "1", "2", "3", "4", "5", "6", "7", "8", "9"}

\* s begins with a YYYY-MM-DD shaped date
DateShaped(s) ==
  /\ Len(s) >= DayLen
  /\ \A i \in 1..DayLen : IF i \in {5, 8} THEN s[i] = "-" ELSE IsDigit(s[i])

\* the listing is in ascending order of start date
Ascending(shown) ==
  \A i \in 1..Len(shown) : \A j \in i..Len(shown) :
     StrGE(shown[j].start_day, shown[i].start_day)

\* the records with a two-hyphen date prefix on or after / before the day
FutureAt(tbl, day) ==
  {i \in 1..Len(tbl) :
     /\ Count(Prefix(tbl[i].start_at, DayLen), "-") = 2
     /\ StrGE(Prefix(tbl[i].start_at, DayLen), day)}
PastAt(tbl, day) ==
  {i \in 1..Len(tbl) :
     /\ Count(Prefix(tbl[i].start_at, DayLen), "-") = 2
     /\ ~StrGE(Prefix(tbl[i].start_at, DayLen), day)}

\* every record the partition keeps has a YYYY-MM-DD shaped date
AllDateShaped(tbl, day) ==
  \A i \in FutureAt(tbl, day) \cup PastAt(tbl, day) : DateShaped(tbl[i].start_at)

Min(a, b) == IF a < b THEN a ELSE b

\* the cards of the document
CardCount(doc) == Cardinality({i \in 1..Len(doc) : doc[i] = "<div class=card>"})

(* ---------------- C1 ---------------- *)

\* C1: a successful import leaves no row that was in the table before it, and
\* every row of the table is derived from a row of the CSV just imported.
C1_TableReplaced ==
  [][(pc = "connected" /\ pc' = "imported") =>
       /\ Ids(events) \cap Ids(events') = {}
       /\ \A i \in 1..Len(events') : events'[i] \notin {events[j] : j \in 1..Len(events)}
       /\ \A i \in 1..Len(events') : \E k \in 1..Len(rows') : FromRow(events'[i], rows'[k])
    ]_vars

\* an import has replaced a table that held rows of an earlier import
C1_Witness == pc = "imported" /\ events # <<>> /\ events[1].id > 1 /\ ~reimport

(* ---------------- C2 ---------------- *)

\* C2: for the rows download_csv returns, the import stores exactly one record
\* per titled row, in order, and none for a row whose name is missing, empty or
\* whitespace; so the table holds as many records as there are titled rows.
\* (Without any row the import stops before it stores or deletes anything.)
C2_OnePerTitledRow ==
  [][(pc = "connected" /\ pc' # "RuntimeError") =>
       IF pc' = "imported"
       THEN /\ Len(events') = Cardinality(TitledAt(rows'))
            /\ \A i \in 1..Len(events') :
                 FromRow(events'[i], rows'[KthTitled(rows', i)])
       ELSE /\ TitledAt(rows') = {}
            /\ events' = events
    ]_vars

\* an import of a CSV with a titled row and a row without a title
C2_Witness ==
  /\ pc = "imported"
  /\ events # <<>>
  /\ Len(events) < Len(rows)
  /\ \E k \in 1..Len(rows) : ~Titled(rows[k])

(* ---------------- C3 ---------------- *)

\* C3 as stated: importing the CSV the table was loaded from leaves the table
\* identical in every column of every row.
C3_Original ==
  [][(pc = "connected" /\ pc' = "imported" /\ reimport') => events' = events]_vars

\* C3 amended: importing the CSV the table was loaded from leaves a table of
\* the same size with the same content in every column except id; the ids
\* are new ones.
C3_SameButIds ==
  [][(pc = "connected" /\ pc' = "imported" /\ reimport') =>
       /\ Len(events') = Len(events)
       /\ \A i \in 1..Len(events) : Columns(events'[i]) = Columns(events[i])
       /\ \A i \in 1..Len(events) : events'[i].id > events[i].id
    ]_vars

\* the same CSV, with a titled row, has been imported twice in a row
C3_Witness == pc = "imported" /\ reimport /\ events # <<>> /\ rows = loaded

(* ---------------- C4 ---------------- *)

\* C4: when a stored record is dated today or later, the page lists exactly the
\* future-dated records, in ascending order of start date (stated for tables
\* whose dates are all well formed).
C4_FutureSorted ==
  (pc = "built" /\ AllDateShaped(events, today) /\ FutureAt(events, today) # {}) =>
     /\ Len(show) = Cardinality(FutureAt(events, today))
     /\ \A i \in 1..Len(show) : StrGE(show[i].start_day, today)
     /\ Ascending(show)

(* ---------------- C5 ---------------- *)

\* C5: when every dated record is before today, the page lists at most 20
\* records, the ones with the latest start dates, in ascending order of date
\* (stated for tables whose dates are all well formed).
C5_PastLatestSorted ==
  (pc = "built" /\ AllDateShaped(events, today) /\ FutureAt(events, today) = {}) =>
     /\ Len(show) = Min(PastLimit, Cardinality(PastAt(events, today)))
     /\ \A i \in PastAt(events, today) :
          LET d == Prefix(events[i].start_at, DayLen) IN
          Cardinality({j \in 1..Len(show) : StrGE(show[j].start_day, d)})
            = Min(Len(show),
                  Cardinality({k \in PastAt(events, today) :
                                 StrGE(Prefix(events[k].start_at, DayLen), d)}))
     /\ Ascending(show)

(* ---------------- C6 ---------------- *)

\* C6: a record's price band is free when its title or its summary contains
\* the free keyword, and unknown when neither does.
C6_PriceBand ==
  \A i \in 1..Len(events) :
     events[i].price_band =
        IF Contains(events[i].title, FreeKeyword)
           \/ Contains(events[i].summary, FreeKeyword)
        THEN "free" ELSE "unknown"

(* ---------------- C7 ---------------- *)

\* C7: a record's kid_score is 80 when its title or its summary contains a
\* child-oriented keyword, and 60 when neither does.
C7_KidScore ==
  \A i \in 1..Len(events) :
     events[i].kid_score =
        IF \E kw \in ElemKeywords :
              Contains(events[i].title, kw) \/ Contains(events[i].summary, kw)
        THEN ElemScore ELSE BaseScore

(* ---------------- C8 ---------------- *)

\* C8 as stated: no card is rendered for a record whose start string does not
\* begin with a YYYY-MM-DD shaped date.
C8_Original ==
  pc = "built" => \A i \in 1..Len(show) : DateShaped(show[i].start_day)

\* C8 amended: no card is rendered for a record whose start string has not
\* exactly two hyphens in its first ten characters, in either listing, and the
\* page is written all the same, with one card per record shown.
C8_TwoHyphens ==
  pc = "built" =>
     /\ \A i \in 1..Len(show) : Count(show[i].start_day, "-") = 2
     /\ Len(show) <= Cardinality(FutureAt(events, today) \cup PastAt(events, today))
     /\ site # <<>>
     /\ CardCount(site) = Len(show)

\* a page was built, with cards, from a table that holds a malformed date
C8_Witness ==
  /\ pc = "built"
  /\ show # <<>>
  /\ \E i \in 1..Len(events) : Count(Prefix(events[i].start_at, DayLen), "-") # 2

(* ---------------- C9 ---------------- *)

\* C9: no character of markup in index.html comes from the data: every
\* interpolated text is escaped, so the document holds no <script> of a title.
C9_Escaped ==
  /\ ~Contains(site, ScriptTag)
  /\ \A i \in 1..Len(site) : site[i] \notin {"<", ">", "\"", "'"}
  /\ \A i \in 1..Len(site) :
        site[i] = "&" =>
           \E ent \in {<<"a", "m", "p", ";">>, <<"l", "t", ";">>, <<"g", "t", ";">>,
                       <<"q", "u", "o", "t", ";">>, <<"#", "x", "2", "7", ";">>} :
              /\ i + Len(ent) <= Len(site)
              /\ SubSeq(site, i + 1, i + Len(ent)) = ent

\* the page shows a <script> title with a link, and markup in the other
\* fields, and a <script> title without a link
C9_Witness ==
  /\ pc = "built"
  /\ \E i \in 1..Len(show) : Contains(show[i].t, ScriptTag) /\ show[i].url = <<>>
  /\ \E i \in 1..Len(show) :
        /\ Contains(show[i].t, ScriptTag)
        /\ show[i].url # <<>>
        /\ Contains(show[i].venue, <<"<">>)
        /\ Contains(show[i].s, <<"&">>)

(* ---------------- C10 ---------------- *)

\* C10: when the fetched text contains <html in any case, the import ends in
\* the RuntimeError with the table and its sequence as they were, and the run
\* ends there: the page is not built.
C10_HtmlRejected ==
  [][/\ (pc = "connected" /\ HtmlShaped(rows')) =>
          (pc' = "RuntimeError" /\ events' = events /\ seq' = seq /\ site' = site)
     /\ pc = "RuntimeError" =>
          (pc' = "idle" /\ events' = events /\ seq' = seq /\ site' = site)
    ]_vars

\* an HTML-shaped body was fetched over a table that holds rows
C10_Witness == pc = "RuntimeError" /\ HtmlShaped(rows) /\ events # <<>>

====
